---- MODULE Spec2Model ----
(***************************************************************************)
(* Model of the VR session of intern/vamr/intern/VAMR_Session.cc: the      *)
(* lifecycle of VAMR_Session (construction, start, state-change events,    *)
(* end, destruction) and its per-frame draw loop.                          *)
(*                                                                         *)
(* A Session is driven by one thread, so every public operation is one     *)
(* atomic action.  The sequential body of an operation is written as an    *)
(* operator on a record `s` that bundles the fields the code can change    *)
(* (oxr, gpu_ctx, gpu_binding, draw_info), the OpenXR runtime's own state  *)
(* (rt), the list of outward calls the operation made (calls) and the      *)
(* exception it left with (thrown).  The OpenXR runtime and the callbacks  *)
(* are the environment: what they return is an input of the action.        *)
(* A runtime call on a handle the runtime does not know fails; a failed    *)
(* create call leaves its output handle untouched.                         *)
(***************************************************************************)
EXTENDS Integers, Sequences, FiniteSets, TLC

VARIABLES
  obj,              \* "alive" | "destroyed" | "crashed": life of the Session object
  custom_funcs,     \* m_context->getCustomFuncs(): which callbacks are registered
  debug_time_mode,  \* m_context->isDebugTimeMode()
  m_oxr,            \* OpenXRSessionData
  m_gpu_ctx,        \* the bound graphics context, or nullptr
  m_gpu_binding,    \* "null" | "created" | "initialized"
  m_draw_info,      \* NullDrawInfo, or the VAMR_DrawInfo record
  rt,               \* state of the OpenXR runtime (live handles, frame loop)
  calls,            \* outward calls made by the most recent operation, in order
  thrown,           \* message of the exception the most recent operation threw
  last_op,          \* name of the most recent operation
  last_event,       \* state carried by the most recent state-change event
  ret,              \* result of the most recent handleStateChangeEvent call
  start_ok,         \* start() has returned without throwing
  gc,               \* bookkeeping of the bind / unbind callback invocations
  all_durations,    \* every frame duration fed to print_debug_timings, in order
  reported          \* what the most recent print_debug_timings printed

vars == <<obj, custom_funcs, debug_time_mode, m_oxr, m_gpu_ctx, m_gpu_binding,
          m_draw_info, rt, calls, thrown, last_op, last_event, ret, start_ok,
          gc, all_durations, reported>>

(***************************************************************************)
(* Bounds of the model.                                                    *)
(***************************************************************************)
MaxViews == 2          \* most views the runtime reports for the configuration
MaxImages == 2         \* most images the runtime reports for one swapchain
MaxFrames == 1         \* timed frames per session in Spec
MaxTimedFrames == 10   \* timed frames per session in SpecTiming
MaxUnbinds == 1        \* end() calls that reach the unbind callback

(***************************************************************************)
(* Program constants and enumerations.                                     *)
(***************************************************************************)
XR_NULL_HANDLE == 0
XR_NULL_SYSTEM_ID == 0
avg_frame_count == 8

SystemId == 1          \* the system id xrGetSystem hands out
GpuCtx == 1            \* the context a bind callback hands out

SessionStates == {"UNKNOWN", "IDLE", "READY", "SYNCHRONIZED", "VISIBLE",
                  "FOCUSED", "STOPPING", "LOSS_PENDING", "EXITING"}

NoThrow == "none"
NullDrawInfo == [null |-> TRUE]

\* Sample values of the data the environment supplies.
Formats == {1, 2}                 \* swapchain pixel formats
DisplayTimes == {7}               \* predicted display times
Durations == {1, 2}               \* frame durations in ms
NominalDuration == {1}            \* the frame duration where timing is not studied
WideView == [recommendedImageRectWidth |-> 2, recommendedImageRectHeight |-> 1]
TallView == [recommendedImageRectWidth |-> 1, recommendedImageRectHeight |-> 2]

(***************************************************************************)
(* Helpers on the bundle.                                                  *)
(***************************************************************************)
Cur == [oxr |-> m_oxr, gpu_ctx |-> m_gpu_ctx, gpu_binding |-> m_gpu_binding,
        draw_info |-> m_draw_info, rt |-> rt, calls |-> <<>>, thrown |-> NoThrow,
        gc |-> gc, obj |-> obj, durations |-> all_durations,
        reported |-> reported, ret |-> ret, uptr |-> XR_NULL_HANDLE,
        proj_layer_views |-> <<>>]

Call2(s, op, arg, arg2) ==
  [s EXCEPT !.calls = Append(@, [op |-> op, arg |-> arg, arg2 |-> arg2])]

Call(s, op, arg) == Call2(s, op, arg, 0)

Throw(s, msg) == [s EXCEPT !.thrown = msg]

\* Whether a runtime call on handle h can succeed: the environment lets it
\* (ok) and h names an object the runtime knows.
RtOk(s, h, ok) == ok /\ h \in s.rt.live

\* The runtime creates an object and returns its fresh handle.
RtCreate(s) == [s EXCEPT !.rt.live = @ \cup {s.rt.next}, !.rt.next = @ + 1]

\* xrDestroy*(h): the runtime drops h; a call on a null or unknown handle is
\* recorded as invalid.
RtDestroy(s, op, h) ==
  LET s1 == Call(s, op, h)
  IN IF h \in s.rt.live
     THEN [s1 EXCEPT !.rt.live = @ \ {h}, !.rt.destroyed = @ \cup {h},
                     !.rt.held = [g \in DOMAIN @ \ {h} |-> @[g]]]
     ELSE [s1 EXCEPT !.rt.invalid_destroy = TRUE]

(***************************************************************************)
(* Construction: VAMR_Session::VAMR_Session with OpenXRSessionData's        *)
(* member initializers (new OpenXRSessionData() zero-initializes the rest). *)
(***************************************************************************)
OpenXRSessionData ==
  [system_id |-> XR_NULL_SYSTEM_ID,
   session |-> XR_NULL_HANDLE,
   session_state |-> "UNKNOWN",
   reference_space |-> XR_NULL_HANDLE,
   views |-> 0,
   swapchains |-> <<>>,
   swapchain_images |-> <<>>,
   swapchain_image_width |-> 0,
   swapchain_image_height |-> 0]

VAMR_DrawInfo ==
  [null |-> FALSE,
   frame_state |-> [shouldRender |-> FALSE, predictedDisplayTime |-> 0],
   last_frame_times |-> <<>>]

Init ==
  /\ obj = "alive"
  /\ custom_funcs \in [gpu_ctx_bind_fn : BOOLEAN, gpu_ctx_unbind_fn : BOOLEAN]
  /\ debug_time_mode \in BOOLEAN
  /\ m_oxr = OpenXRSessionData
  /\ m_gpu_ctx = XR_NULL_HANDLE
  /\ m_gpu_binding = "null"
  /\ m_draw_info = NullDrawInfo
  /\ rt = [live |-> {}, destroyed |-> {}, next |-> 1, invalid_destroy |-> FALSE,
           frame_begun |-> FALSE, held |-> <<>>, created |-> <<>>]
  /\ calls = <<>>
  /\ thrown = NoThrow
  /\ last_op = "none"
  /\ last_event = "none"
  /\ ret = "none"
  /\ start_ok = FALSE
  /\ gc = [binds |-> 0, unbinds |-> 0, released |-> 0]
  /\ all_durations = <<>>
  /\ reported = [duration_ms |-> 0, avg_ms_tot |-> 0, size |-> 0]

\* Writes a bundle back to the variables.
Commit(s, op) ==
  /\ m_oxr' = s.oxr
  /\ m_gpu_ctx' = s.gpu_ctx
  /\ m_gpu_binding' = s.gpu_binding
  /\ m_draw_info' = s.draw_info
  /\ rt' = s.rt
  /\ calls' = s.calls
  /\ thrown' = s.thrown
  /\ gc' = s.gc
  /\ all_durations' = s.durations
  /\ reported' = s.reported
  /\ last_op' = op
  /\ obj' = s.obj
  /\ UNCHANGED <<custom_funcs, debug_time_mode>>

(***************************************************************************)
(* State queries.                                                          *)
(***************************************************************************)
isRunning_ignoresHandle(oxr) ==
  oxr.session_state \in {"READY", "SYNCHRONIZED", "VISIBLE", "FOCUSED"}

isRunning_withoutFocused(oxr) ==
  IF oxr.session = XR_NULL_HANDLE
  THEN FALSE
  ELSE oxr.session_state \in {"READY", "SYNCHRONIZED", "VISIBLE"}

isRunning(oxr) ==
  IF oxr.session = XR_NULL_HANDLE
  THEN FALSE
  ELSE oxr.session_state \in {"READY", "SYNCHRONIZED", "VISIBLE", "FOCUSED"}

(***************************************************************************)
(* Graphics context injection.                                             *)
(***************************************************************************)
\* ctx is what the bind callback returns.
bindGraphicsContext(s, ctx) ==
  [Call(s, "gpu_ctx_bind_fn", ctx) EXCEPT
     !.gpu_ctx = ctx,
     !.gc.binds = IF ctx = XR_NULL_HANDLE THEN @ ELSE @ + 1]

unbindGraphicsContext_keepsContext(s) ==
  IF custom_funcs.gpu_ctx_unbind_fn
  THEN [Call(s, "gpu_ctx_unbind_fn", s.gpu_ctx) EXCEPT
          !.gc.unbinds = @ + 1,
          !.gc.released = IF s.gpu_ctx = XR_NULL_HANDLE THEN @ ELSE @ + 1]
  ELSE s

unbindGraphicsContext(s) ==
  LET s1 == IF custom_funcs.gpu_ctx_unbind_fn
            THEN [Call(s, "gpu_ctx_unbind_fn", s.gpu_ctx) EXCEPT
                    !.gc.unbinds = @ + 1,
                    !.gc.released = IF s.gpu_ctx = XR_NULL_HANDLE THEN @ ELSE @ + 1]
            ELSE s
  IN [s1 EXCEPT !.gpu_ctx = XR_NULL_HANDLE]

(***************************************************************************)
(* State management: end, requestEnd, handleStateChangeEvent.              *)
(***************************************************************************)
\* ok: the environment lets xrEndSession succeed.
end_keepsDrawInfo(s, ok) ==
  LET s1 == Call(s, "xrEndSession", s.oxr.session)
  IN IF ~RtOk(s, s.oxr.session, ok)
     THEN Throw(s1, "Failed to cleanly end the VR session.")
     ELSE unbindGraphicsContext(s1)

end_unbindsFirst(s, ok) ==
  LET s1 == unbindGraphicsContext(s)
      s2 == Call(s1, "xrEndSession", s.oxr.session)
  IN IF ~RtOk(s, s.oxr.session, ok)
     THEN Throw(s2, "Failed to cleanly end the VR session.")
     ELSE [s2 EXCEPT !.draw_info = NullDrawInfo]

end_keepsContext(s, ok) ==
  LET s1 == Call(s, "xrEndSession", s.oxr.session)
      s2 == unbindGraphicsContext(s1)
  IN IF ~RtOk(s, s.oxr.session, ok)
     THEN Throw(s1, "Failed to cleanly end the VR session.")
     ELSE [s2 EXCEPT !.gpu_ctx = s.gpu_ctx, !.draw_info = NullDrawInfo]

end(s, ok) ==
  LET s1 == Call(s, "xrEndSession", s.oxr.session)
  IN IF ~RtOk(s, s.oxr.session, ok)
     THEN Throw(s1, "Failed to cleanly end the VR session.")
     ELSE [unbindGraphicsContext(s1) EXCEPT
             !.draw_info = NullDrawInfo]

requestEnd_alsoEnds(s) ==
  end(Call(s, "xrRequestExitSession", s.oxr.session), TRUE)

requestEnd(s) == Call(s, "xrRequestExitSession", s.oxr.session)

\* The body of handleStateChangeEvent; the result is the bundle with the
\* value returned in field ret ("throw" when the call left by exception).
handleStateChangeEvent_destroyOnStopping(s, state, ok) ==
  LET s1 == [s EXCEPT !.oxr.session_state = state]
  IN CASE state = "READY" ->
            LET s2 == Call(s1, "xrBeginSession", s1.oxr.session)
            IN IF ~RtOk(s1, s1.oxr.session, ok)
               THEN [Throw(s2, "Failed to cleanly begin the VR session.")
                       EXCEPT !.ret = "throw"]
               ELSE [s2 EXCEPT !.ret = "SESSION_KEEP_ALIVE"]
       [] state = "STOPPING" ->
            LET s2 == end(s1, ok)
            IN [s2 EXCEPT !.ret = IF s2.thrown = NoThrow
                                  THEN "SESSION_DESTROY" ELSE "throw"]
       [] state \in {"EXITING", "LOSS_PENDING"} ->
            [s1 EXCEPT !.ret = "SESSION_DESTROY"]
       [] OTHER -> [s1 EXCEPT !.ret = "SESSION_KEEP_ALIVE"]

handleStateChangeEvent_endsOnExiting(s, state, ok) ==
  LET s1 == [s EXCEPT !.oxr.session_state = state]
  IN CASE state = "READY" ->
            LET s2 == Call(s1, "xrBeginSession", s1.oxr.session)
            IN IF ~RtOk(s1, s1.oxr.session, ok)
               THEN [Throw(s2, "Failed to cleanly begin the VR session.")
                       EXCEPT !.ret = "throw"]
               ELSE [s2 EXCEPT !.ret = "SESSION_KEEP_ALIVE"]
       [] state = "STOPPING" ->
            LET s2 == end(s1, ok)
            IN [s2 EXCEPT !.ret = IF s2.thrown = NoThrow
                                  THEN "SESSION_KEEP_ALIVE" ELSE "throw"]
       [] state \in {"EXITING", "LOSS_PENDING"} ->
            [end(s1, TRUE) EXCEPT !.thrown = NoThrow, !.ret = "SESSION_DESTROY"]
       [] OTHER -> [s1 EXCEPT !.ret = "SESSION_KEEP_ALIVE"]

handleStateChangeEvent(s, state, ok) ==
  LET s1 == [s EXCEPT !.oxr.session_state = state]
  IN CASE state = "READY" ->
            LET s2 == Call(s1, "xrBeginSession", s1.oxr.session)
            IN IF ~RtOk(s1, s1.oxr.session, ok)
               THEN [Throw(s2, "Failed to cleanly begin the VR session.")
                       EXCEPT !.ret = "throw"]
               ELSE [s2 EXCEPT !.ret = "SESSION_KEEP_ALIVE"]
       [] state = "STOPPING" ->
            LET s2 == end(s1, ok)
            IN [s2 EXCEPT !.ret = IF s2.thrown = NoThrow
                                  THEN "SESSION_KEEP_ALIVE" ELSE "throw"]
       [] state \in {"EXITING", "LOSS_PENDING"} ->
            [s1 EXCEPT !.ret = "SESSION_DESTROY"]
       [] OTHER -> [s1 EXCEPT !.ret = "SESSION_KEEP_ALIVE"]

(***************************************************************************)
(* Inputs of start(): what the runtime, the bind callback and the graphics *)
(* binding answer.  fail names the one step that fails ("none": no step),  *)
(* fail_view the view of the loop of prepareDrawing it fails for.          *)
(***************************************************************************)
StartFailEarly == {"xrGetSystem", "gpu_ctx_bind_fn", "checkVersionRequirements",
                   "xrCreateSession", "xrEnumerateViewConfigurationViews#1",
                   "xrEnumerateViewConfigurationViews#2"}
StartFailPerView == {"xrEnumerateSwapchainFormats#1", "xrEnumerateSwapchainFormats#2",
                     "xrCreateSwapchain", "xrEnumerateSwapchainImages#1",
                     "xrEnumerateSwapchainImages#2"}
StartFailLate == {"xrCreateReferenceSpace", "none"}

\* The view configurations the runtime can report for n views.  The code only
\* copies the recommended sizes, so the first view is the wide one and every
\* further view is either wide or tall.
ViewConfigurationViews(n) ==
  {c \in [1..n -> {WideView, TallView}] : c[1] = WideView}

StartInputs ==
  {[fail |-> f, fail_view |-> 1, view_configs |-> <<>>, image_count |-> 1,
    rt_formats |-> {}, gb_formats |-> {}] : f \in StartFailEarly}
  \cup
  UNION {[fail : StartFailPerView, fail_view : 1..n,
          view_configs : ViewConfigurationViews(n),
          image_count : 1..MaxImages,
          rt_formats : SUBSET Formats, gb_formats : SUBSET Formats] : n \in 1..MaxViews}
  \cup
  UNION {[fail : StartFailLate, fail_view : {1},
          view_configs : ViewConfigurationViews(n),
          image_count : 1..MaxImages,
          rt_formats : SUBSET Formats, gb_formats : SUBSET Formats] : n \in 1..MaxViews}

Fails(in, point) == in.fail = point
FailsAt(in, point, view) == in.fail = point /\ in.fail_view = view

(***************************************************************************)
(* Collaborators whose code is outside this file.                          *)
(***************************************************************************)
\* VAMR_IGraphicsBinding::chooseSwapchainFormat: the backend accepts one of
\* the offered formats, or none.
chooseSwapchainFormat(rt_formats, gb_formats) ==
  LET both == rt_formats \cap gb_formats
  IN IF both = {}
     THEN [ok |-> FALSE, format |-> 0]
     ELSE [ok |-> TRUE, format |-> CHOOSE f \in both : \A g \in both : f <= g]

\* VAMR_IGraphicsBinding::createSwapchainImages: image_count image headers.
createSwapchainImages(image_count) == [i \in 1..image_count |-> i]

\* unique_oxr_ptr<XrSwapchain> leaving scope: destroys the handle it still owns.
unique_oxr_ptr_dtor(s) ==
  IF s.uptr = XR_NULL_HANDLE
  THEN s
  ELSE [RtDestroy(s, "xrDestroySwapchain", s.uptr) EXCEPT !.uptr = XR_NULL_HANDLE]

(***************************************************************************)
(* Create, initialize: initSystem, create_reference_space.                 *)
(***************************************************************************)
initSystem(s, in) ==
  LET s1 == Call(s, "xrGetSystem", 0)
  IN IF Fails(in, "xrGetSystem")
     THEN Throw(s1, "Failed to get device information. Is a device plugged in?")
     ELSE [s1 EXCEPT !.oxr.system_id = SystemId]

create_reference_space(s, in) ==
  LET s1 == Call(s, "xrCreateReferenceSpace", s.oxr.session)
  IN IF ~RtOk(s, s.oxr.session, ~Fails(in, "xrCreateReferenceSpace"))
     THEN Throw(s1, "Failed to create reference space.")
     ELSE [RtCreate(s1) EXCEPT !.oxr.reference_space = s.rt.next]

(***************************************************************************)
(* Drawing: swapchain_images_create, swapchain_create, prepareDrawing.     *)
(***************************************************************************)
\* The result carries the images in field images.
swapchain_images_create(s, swapchain, in, view) ==
  LET s1 == Call(s, "xrEnumerateSwapchainImages", swapchain)
      images == createSwapchainImages(in.image_count)
      s2 == Call2(s1, "xrEnumerateSwapchainImages", swapchain, Len(images))
  IN IF ~RtOk(s, swapchain, ~FailsAt(in, "xrEnumerateSwapchainImages#1", view))
     THEN [images |-> <<>>,
           s |-> Throw(s1, "Failed to get count of swapchain images to create for the VR session.")]
     ELSE IF ~RtOk(s, swapchain, ~FailsAt(in, "xrEnumerateSwapchainImages#2", view))
     THEN [images |-> <<>>,
           s |-> Throw(s2, "Failed to create swapchain images for the VR session.")]
     ELSE [images |-> images, s |-> s2]

swapchain_create_ignoresChoice(s, in, view) ==
  LET session == s.oxr.session
      xr_view == in.view_configs[view]
      s1 == Call(s, "xrEnumerateSwapchainFormats", session)
      s2 == Call2(s1, "xrEnumerateSwapchainFormats", session, Cardinality(in.rt_formats))
      s2c == Call2(s2, "chooseSwapchainFormat", in.rt_formats, in.gb_formats)
      chosen == chooseSwapchainFormat(in.rt_formats, in.gb_formats)
      s3 == Call2(s2c, "xrCreateSwapchain", session, chosen.format)
      create_info == [width |-> xr_view.recommendedImageRectWidth,
                      height |-> xr_view.recommendedImageRectHeight]
  IN IF ~RtOk(s, session, ~FailsAt(in, "xrEnumerateSwapchainFormats#1", view))
     THEN Throw(s1, "Failed to get count of swapchain image formats.")
     ELSE IF ~RtOk(s, session, ~FailsAt(in, "xrEnumerateSwapchainFormats#2", view))
     THEN Throw(s2, "Failed to get swapchain image formats.")
     ELSE IF ~RtOk(s, session, ~FailsAt(in, "xrCreateSwapchain", view))
     THEN Throw(s3, "Failed to create OpenXR swapchain.")
     ELSE [RtCreate(s3) EXCEPT !.uptr = s.rt.next,
                               !.rt.created = @ @@ (s.rt.next :> create_info),
                               !.rt.held = @ @@ (s.rt.next :> 0)]

\* The result holds the new handle in field uptr (the unique_oxr_ptr).
swapchain_create(s, in, view) ==
  LET session == s.oxr.session
      xr_view == in.view_configs[view]
      s1 == Call(s, "xrEnumerateSwapchainFormats", session)
      s2 == Call2(s1, "xrEnumerateSwapchainFormats", session, Cardinality(in.rt_formats))
      s2c == Call2(s2, "chooseSwapchainFormat", in.rt_formats, in.gb_formats)
      chosen == chooseSwapchainFormat(in.rt_formats, in.gb_formats)
      s3 == Call2(s2c, "xrCreateSwapchain", session, chosen.format)
      create_info == [width |-> xr_view.recommendedImageRectWidth,
                      height |-> xr_view.recommendedImageRectHeight]
  IN IF ~RtOk(s, session, ~FailsAt(in, "xrEnumerateSwapchainFormats#1", view))
     THEN Throw(s1, "Failed to get count of swapchain image formats.")
     ELSE IF ~RtOk(s, session, ~FailsAt(in, "xrEnumerateSwapchainFormats#2", view))
     THEN Throw(s2, "Failed to get swapchain image formats.")
     ELSE IF ~chosen.ok
     THEN Throw(s2c, "Error: No format matching OpenXR runtime supported swapchain formats found.")
     ELSE IF ~RtOk(s, session, ~FailsAt(in, "xrCreateSwapchain", view))
     THEN Throw(s3, "Failed to create OpenXR swapchain.")
     ELSE [RtCreate(s3) EXCEPT !.uptr = s.rt.next,
                               !.rt.created = @ @@ (s.rt.next :> create_info),
                               !.rt.held = @ @@ (s.rt.next :> 0)]

prepareDrawing_view_pushesBeforeImages(s, in, view) ==
  LET s1 == swapchain_create(s, in, view)
      s1p == [s1 EXCEPT !.oxr.swapchains = Append(@, s1.uptr)]
      r == swapchain_images_create(s1p, s1.uptr, in, view)
      xr_view == in.view_configs[view]
  IN IF s1.thrown # NoThrow THEN unique_oxr_ptr_dtor(s1)
     ELSE IF r.s.thrown # NoThrow THEN unique_oxr_ptr_dtor(r.s)
     ELSE [r.s EXCEPT
             !.oxr.swapchain_image_width = xr_view.recommendedImageRectWidth,
             !.oxr.swapchain_image_height = xr_view.recommendedImageRectHeight,
             !.oxr.swapchain_images = @ @@ (s1.uptr :> r.images),
             !.uptr = XR_NULL_HANDLE]

\* One turn of the loop over view_configs.
prepareDrawing_view(s, in, view) ==
  LET s1 == swapchain_create(s, in, view)
      r == swapchain_images_create(s1, s1.uptr, in, view)
      xr_view == in.view_configs[view]
  IN IF s1.thrown # NoThrow THEN unique_oxr_ptr_dtor(s1)
     ELSE IF r.s.thrown # NoThrow THEN unique_oxr_ptr_dtor(r.s)
     ELSE [r.s EXCEPT
             !.oxr.swapchain_image_width = xr_view.recommendedImageRectWidth,
             !.oxr.swapchain_image_height = xr_view.recommendedImageRectHeight,
             !.oxr.swapchains = Append(@, s1.uptr),
             !.oxr.swapchain_images = @ @@ (s1.uptr :> r.images),
             !.uptr = XR_NULL_HANDLE]

RECURSIVE prepareDrawing_loop(_, _, _)
prepareDrawing_loop(s, in, view) ==
  IF view > Len(in.view_configs) \/ s.thrown # NoThrow
  THEN s
  ELSE prepareDrawing_loop(prepareDrawing_view(s, in, view), in, view + 1)

prepareDrawing_oneViewShort(s, in) ==
  LET view_count == Len(in.view_configs)
      s1 == Call(s, "xrEnumerateViewConfigurationViews", 0)
      s2 == Call2(s1, "xrEnumerateViewConfigurationViews", 0, view_count)
      s3 == prepareDrawing_loop(s2, in, 1)
  IN IF Fails(in, "xrEnumerateViewConfigurationViews#1")
     THEN Throw(s1, "Failed to get count of view configurations.")
     ELSE IF Fails(in, "xrEnumerateViewConfigurationViews#2")
     THEN Throw(s2, "Failed to get count of view configurations.")
     ELSE IF s3.thrown # NoThrow
     THEN s3
     ELSE [s3 EXCEPT !.oxr.views = view_count - 1, !.draw_info = VAMR_DrawInfo]

prepareDrawing(s, in) ==
  LET view_count == Len(in.view_configs)
      s1 == Call(s, "xrEnumerateViewConfigurationViews", 0)
      s2 == Call2(s1, "xrEnumerateViewConfigurationViews", 0, view_count)
      s3 == prepareDrawing_loop(s2, in, 1)
  IN IF Fails(in, "xrEnumerateViewConfigurationViews#1")
     THEN Throw(s1, "Failed to get count of view configurations.")
     ELSE IF Fails(in, "xrEnumerateViewConfigurationViews#2")
     THEN Throw(s2, "Failed to get count of view configurations.")
     ELSE IF s3.thrown # NoThrow
     THEN s3
     ELSE [s3 EXCEPT !.oxr.views = view_count, !.draw_info = VAMR_DrawInfo]

(***************************************************************************)
(* start().                                                                *)
(***************************************************************************)
start_checksCallbackLate(s, in) ==
  LET s1 == initSystem(s, in)
      s2 == bindGraphicsContext(s1, IF Fails(in, "gpu_ctx_bind_fn")
                                    THEN XR_NULL_HANDLE ELSE GpuCtx)
      s3 == Call2([s2 EXCEPT !.gpu_binding = "created"],
                  "checkVersionRequirements", s2.gpu_ctx,
                  IF Fails(in, "checkVersionRequirements") THEN 0 ELSE 1)
      s3i == Call([s3 EXCEPT !.gpu_binding = "initialized"],
                  "initFromGhostContext", s3.gpu_ctx)
      s4 == Call(s3i, "xrCreateSession", 0)
      s5 == [RtCreate(s4) EXCEPT !.oxr.session = s4.rt.next]
      s6 == prepareDrawing(s5, in)
  IN IF s1.thrown # NoThrow THEN s1
     ELSE IF ~custom_funcs.gpu_ctx_bind_fn
     THEN Throw(s1, "Invalid API usage: No way to bind graphics context to the XR session.")
     ELSE IF s2.gpu_ctx = XR_NULL_HANDLE
     THEN Throw(s2, "Invalid API usage: No graphics context returned through the callback.")
     ELSE IF Fails(in, "checkVersionRequirements")
     THEN Throw(s3, "Available graphics context version does not meet the following requirements: ")
     ELSE IF Fails(in, "xrCreateSession")
     THEN Throw(s4, "Failed to create VR session.")
     ELSE IF s6.thrown # NoThrow THEN s6
     ELSE create_reference_space(s6, in)

start_createsSessionBeforeBinding(s, in) ==
  IF ~custom_funcs.gpu_ctx_bind_fn
  THEN Throw(s, "Invalid API usage: No way to bind graphics context to the XR session.")
  ELSE
  LET s1 == initSystem(s, in)
      s0 == Call(s1, "xrCreateSession", 0)
      s2 == bindGraphicsContext(s0, IF Fails(in, "gpu_ctx_bind_fn")
                                    THEN XR_NULL_HANDLE ELSE GpuCtx)
      s3 == Call2([s2 EXCEPT !.gpu_binding = "created"],
                  "checkVersionRequirements", s2.gpu_ctx,
                  IF Fails(in, "checkVersionRequirements") THEN 0 ELSE 1)
      s3i == Call([s3 EXCEPT !.gpu_binding = "initialized"],
                  "initFromGhostContext", s3.gpu_ctx)
      s4 == s3i
      s5 == [RtCreate(s4) EXCEPT !.oxr.session = s4.rt.next]
      s6 == prepareDrawing(s5, in)
  IN IF s1.thrown # NoThrow THEN s1
     ELSE IF s2.gpu_ctx = XR_NULL_HANDLE
     THEN Throw(s2, "Invalid API usage: No graphics context returned through the callback.")
     ELSE IF Fails(in, "checkVersionRequirements")
     THEN Throw(s3, "Available graphics context version does not meet the following requirements: ")
     ELSE IF Fails(in, "xrCreateSession")
     THEN Throw(s4, "Failed to create VR session.")
     ELSE IF s6.thrown # NoThrow THEN s6
     ELSE create_reference_space(s6, in)

start(s, in) ==
  IF ~custom_funcs.gpu_ctx_bind_fn
  THEN Throw(s, "Invalid API usage: No way to bind graphics context to the XR session.")
  ELSE
  LET s1 == initSystem(s, in)
      s2 == bindGraphicsContext(s1, IF Fails(in, "gpu_ctx_bind_fn")
                                    THEN XR_NULL_HANDLE ELSE GpuCtx)
      s3 == Call2([s2 EXCEPT !.gpu_binding = "created"],
                  "checkVersionRequirements", s2.gpu_ctx,
                  IF Fails(in, "checkVersionRequirements") THEN 0 ELSE 1)
      s3i == Call([s3 EXCEPT !.gpu_binding = "initialized"],
                  "initFromGhostContext", s3.gpu_ctx)
      s4 == Call(s3i, "xrCreateSession", 0)
      s5 == [RtCreate(s4) EXCEPT !.oxr.session = s4.rt.next]
      s6 == prepareDrawing(s5, in)
  IN IF s1.thrown # NoThrow THEN s1
     ELSE IF s2.gpu_ctx = XR_NULL_HANDLE
     THEN Throw(s2, "Invalid API usage: No graphics context returned through the callback.")
     ELSE IF Fails(in, "checkVersionRequirements")
     THEN Throw(s3, "Available graphics context version does not meet the following requirements: ")
     ELSE IF Fails(in, "xrCreateSession")
     THEN Throw(s4, "Failed to create VR session.")
     ELSE IF s6.thrown # NoThrow THEN s6
     ELSE create_reference_space(s6, in)

(***************************************************************************)
(* Destruction.                                                            *)
(***************************************************************************)
RECURSIVE destroySwapchains_backwards(_, _)
destroySwapchains_backwards(s, i) ==
  IF i > Len(s.oxr.swapchains)
  THEN s
  ELSE destroySwapchains_backwards(
         RtDestroy(s, "xrDestroySwapchain",
                   s.oxr.swapchains[Len(s.oxr.swapchains) - i + 1]), i + 1)

RECURSIVE destroySwapchains(_, _)
destroySwapchains(s, i) ==
  IF i > Len(s.oxr.swapchains)
  THEN s
  ELSE destroySwapchains(RtDestroy(s, "xrDestroySwapchain", s.oxr.swapchains[i]), i + 1)

destructor_unguarded(s) ==
  LET s1 == unbindGraphicsContext(s)
      s2 == [destroySwapchains(s1, 1) EXCEPT !.oxr.swapchains = <<>>]
      s3 == RtDestroy(s2, "xrDestroySpace", s2.oxr.reference_space)
      s4 == RtDestroy(s3, "xrDestroySession", s3.oxr.session)
  IN [s4 EXCEPT !.oxr.session = XR_NULL_HANDLE, !.oxr.session_state = "UNKNOWN",
                !.rt.frame_begun = FALSE]

destructor_keepsSwapchains(s) ==
  LET s1 == unbindGraphicsContext(s)
      s2 == [s1 EXCEPT !.oxr.swapchains = <<>>]
      s3 == IF s2.oxr.reference_space # XR_NULL_HANDLE
            THEN RtDestroy(s2, "xrDestroySpace", s2.oxr.reference_space)
            ELSE s2
      s4 == IF s3.oxr.session # XR_NULL_HANDLE
            THEN [RtDestroy(s3, "xrDestroySession", s3.oxr.session) EXCEPT
                    !.rt.frame_begun = FALSE]
            ELSE s3
  IN [s4 EXCEPT !.oxr.session = XR_NULL_HANDLE, !.oxr.session_state = "UNKNOWN"]

destructor_sessionFirst(s) ==
  LET s1 == unbindGraphicsContext(s)
      s2 == IF s1.oxr.session # XR_NULL_HANDLE
            THEN [RtDestroy(s1, "xrDestroySession", s1.oxr.session) EXCEPT
                    !.rt.frame_begun = FALSE]
            ELSE s1
      s3 == [destroySwapchains(s2, 1) EXCEPT !.oxr.swapchains = <<>>]
      s4 == IF s3.oxr.reference_space # XR_NULL_HANDLE
            THEN RtDestroy(s3, "xrDestroySpace", s3.oxr.reference_space)
            ELSE s3
  IN [s4 EXCEPT !.oxr.session = XR_NULL_HANDLE, !.oxr.session_state = "UNKNOWN"]

destructor(s) ==
  LET s1 == unbindGraphicsContext(s)
      s2 == [destroySwapchains(s1, 1) EXCEPT !.oxr.swapchains = <<>>]
      s3 == IF s2.oxr.reference_space # XR_NULL_HANDLE
            THEN RtDestroy(s2, "xrDestroySpace", s2.oxr.reference_space)
            ELSE s2
      s4 == IF s3.oxr.session # XR_NULL_HANDLE
            THEN [RtDestroy(s3, "xrDestroySession", s3.oxr.session) EXCEPT
                    !.rt.frame_begun = FALSE]
            ELSE s3
  IN [s4 EXCEPT !.oxr.session = XR_NULL_HANDLE, !.oxr.session_state = "UNKNOWN"]

(***************************************************************************)
(* Inputs of draw(): the frame state xrWaitFrame reports, the image index  *)
(* xrAcquireSwapchainImage hands out, the measured frame duration and the  *)
(* one runtime call that fails ("none": no call).                          *)
(***************************************************************************)
DrawFailPerView == {"xrAcquireSwapchainImage", "xrWaitSwapchainImage",
                    "xrReleaseSwapchainImage"}

\* The failures that leave drawView() with its image acquired.
DrawFailHolding == {"xrWaitSwapchainImage", "xrReleaseSwapchainImage"}

DrawInputs(durations) ==
  [fail : {"xrWaitFrame", "xrBeginFrame"}, fail_view : {1}, shouldRender : {TRUE},
   predictedDisplayTime : DisplayTimes, swapchain_idx : {1}, duration_ms : {1}]
  \cup
  [fail : {"xrLocateViews"}, fail_view : {1}, shouldRender : {TRUE},
   predictedDisplayTime : DisplayTimes, swapchain_idx : {1}, duration_ms : {1}]
  \cup
  [fail : DrawFailPerView, fail_view : 1..MaxViews, shouldRender : {TRUE},
   predictedDisplayTime : DisplayTimes, swapchain_idx : 1..MaxImages,
   duration_ms : {1}]
  \cup
  [fail : {"xrEndFrame"}, fail_view : {1}, shouldRender : BOOLEAN,
   predictedDisplayTime : DisplayTimes, swapchain_idx : 1..MaxImages,
   duration_ms : {1}]
  \cup
  [fail : {"none"}, fail_view : {1}, shouldRender : BOOLEAN,
   predictedDisplayTime : DisplayTimes, swapchain_idx : 1..MaxImages,
   duration_ms : durations]

(***************************************************************************)
(* Drawing: the frame loop.                                                *)
(***************************************************************************)
beginFrameDrawing(s, in) ==
  LET session == s.oxr.session
      frame_state == [shouldRender |-> in.shouldRender,
                      predictedDisplayTime |-> in.predictedDisplayTime]
      s1 == Call(s, "xrWaitFrame", session)
      s2 == [Call(s1, "xrBeginFrame", session) EXCEPT !.rt.frame_begun = TRUE]
  IN IF ~RtOk(s, session, ~Fails(in, "xrWaitFrame"))
     THEN Throw(s1, "Failed to synchronize frame rates between Blender and the device.")
     ELSE IF ~RtOk(s, session, ~Fails(in, "xrBeginFrame"))
     THEN Throw(Call(s1, "xrBeginFrame", session),
                "Failed to submit frame rendering start state.")
     ELSE IF s.draw_info.null
     THEN [s2 EXCEPT !.obj = "crashed"]       \* m_draw_info-> on a null pointer
     ELSE [s2 EXCEPT !.draw_info.frame_state = frame_state]

Sum(seq) ==
  LET RECURSIVE SumTo(_)
      SumTo(i) == IF i = 0 THEN 0 ELSE seq[i] + SumTo(i - 1)
  IN SumTo(Len(seq))

\* duration_ms: the time since frame_begin_time.
print_debug_timings_popsLate(s, duration_ms) ==
  LET times == s.draw_info.last_frame_times
      popped == IF Len(times) > avg_frame_count THEN Tail(times) ELSE times
      pushed == Append(popped, duration_ms)
  IN [s EXCEPT !.draw_info.last_frame_times = pushed,
               !.durations = Append(@, duration_ms),
               !.reported = [duration_ms |-> duration_ms,
                             avg_ms_tot |-> Sum(pushed), size |-> Len(pushed)]]

print_debug_timings(s, duration_ms) ==
  LET times == s.draw_info.last_frame_times
      popped == IF Len(times) >= avg_frame_count THEN Tail(times) ELSE times
      pushed == Append(popped, duration_ms)
  IN [s EXCEPT !.draw_info.last_frame_times = pushed,
               !.durations = Append(@, duration_ms),
               !.reported = [duration_ms |-> duration_ms,
                             avg_ms_tot |-> Sum(pushed), size |-> Len(pushed)]]

\* layers: the composition layers of the frame.
endFrameDrawing(s, in, layers) ==
  LET session == s.oxr.session
      s1 == Call2(s, "xrEndFrame", Len(layers),
                  s.draw_info.frame_state.predictedDisplayTime)
      s2 == [s1 EXCEPT !.rt.frame_begun = FALSE]
  IN IF ~RtOk(s, session, ~Fails(in, "xrEndFrame"))
     THEN Throw(s1, "Failed to submit rendered frame.")
     ELSE IF debug_time_mode
     THEN print_debug_timings(s2, in.duration_ms)
     ELSE s2

drawView(s, in, view_idx) ==
  LET swapchain == s.oxr.swapchains[view_idx]
      s1 == Call(s, "xrAcquireSwapchainImage", swapchain)
      s1a == [s1 EXCEPT !.rt.held[swapchain] = @ + 1]
      s2 == Call(s1a, "xrWaitSwapchainImage", swapchain)
      proj_layer_view == [swapchain |-> swapchain,
                          width |-> s.oxr.swapchain_image_width,
                          height |-> s.oxr.swapchain_image_height]
      s3 == Call2(s2, "draw_view_fn", proj_layer_view.width, proj_layer_view.height)
      s4 == Call(s3, "submitToSwapchain", swapchain)
      s5 == Call([s4 EXCEPT !.proj_layer_views = Append(@, proj_layer_view)],
                 "xrReleaseSwapchainImage", swapchain)
  IN IF \/ ~RtOk(s, swapchain, ~FailsAt(in, "xrAcquireSwapchainImage", view_idx))
        \/ s.rt.held[swapchain] >= Len(s.oxr.swapchain_images[swapchain])
     THEN Throw(s1, "Failed to acquire swapchain image for the VR session.")
     ELSE IF FailsAt(in, "xrWaitSwapchainImage", view_idx)
     THEN Throw(s2, "Failed to acquire swapchain image for the VR session.")
     ELSE IF FailsAt(in, "xrReleaseSwapchainImage", view_idx)
     THEN Throw(s5, "Failed to release swapchain image used to submit VR session frame.")
     ELSE [s5 EXCEPT !.rt.held[swapchain] = @ - 1]

RECURSIVE drawLayer_loop(_, _, _, _)
drawLayer_loop(s, in, view_idx, view_count) ==
  IF view_idx > view_count \/ s.thrown # NoThrow
  THEN s
  ELSE drawLayer_loop(drawView(s, in, view_idx), in, view_idx + 1, view_count)

\* The result holds the views of the layer in field proj_layer_views.
drawLayer(s, in) ==
  LET s1 == Call2(s, "xrLocateViews", s.oxr.session, s.oxr.reference_space)
      view_count == s.oxr.views
  IN IF \/ ~RtOk(s, s.oxr.session, ~Fails(in, "xrLocateViews"))
        \/ s.oxr.reference_space \notin s.rt.live
     THEN Throw(s1, "Failed to query frame view and projection state.")
     ELSE drawLayer_loop(s1, in, 1, view_count)

draw_alwaysRenders(s, in) ==
  LET s1 == beginFrameDrawing(s, in)
      s2 == drawLayer(s1, in)
  IN IF s1.thrown # NoThrow \/ s1.obj = "crashed" THEN s1
     ELSE IF s2.thrown # NoThrow THEN s2
     ELSE endFrameDrawing(s2, in, <<s2.proj_layer_views>>)

draw(s, in) ==
  LET s1 == beginFrameDrawing(s, in)
      s2 == drawLayer(s1, in)
  IN IF s1.thrown # NoThrow \/ s1.obj = "crashed" THEN s1
     ELSE IF s1.draw_info.frame_state.shouldRender
     THEN IF s2.thrown # NoThrow THEN s2
          ELSE endFrameDrawing(s2, in, <<s2.proj_layer_views>>)
     ELSE endFrameDrawing(s1, in, <<>>)

(***************************************************************************)
(* The operations of a Session as actions.  The owner of the Session calls *)
(* them from one thread.  It destroys a Session whose start() threw, calls *)
(* draw() and requestEnd() only on a Session whose start() returned, and   *)
(* passes on state-change events whenever the runtime delivers them.       *)
(***************************************************************************)
StartThrew == last_op = "start" /\ thrown # NoThrow

StartWith(inputs) ==
  /\ obj = "alive"
  /\ ~StartThrew
  /\ m_oxr.session = XR_NULL_HANDLE        \* assert of start()
  /\ m_oxr.system_id = XR_NULL_SYSTEM_ID   \* assert of initSystem()
  /\ \E in \in inputs :
       LET s == start(Cur, in)
       IN /\ Commit(s, "start")
          /\ start_ok' = (s.thrown = NoThrow)
  /\ UNCHANGED <<last_event, ret>>

Start == StartWith(StartInputs)

RequestEnd ==
  /\ obj = "alive"
  /\ start_ok
  /\ Commit(requestEnd(Cur), "requestEnd")
  /\ UNCHANGED <<last_event, ret, start_ok>>

HandleStateChangeEvent ==
  /\ obj = "alive"
  /\ ~StartThrew
  /\ \E state \in SessionStates, ok \in BOOLEAN :
       /\ state = "STOPPING" => gc.unbinds < MaxUnbinds
       /\ LET s == handleStateChangeEvent(Cur, state, ok)
          IN /\ Commit(s, "handleStateChangeEvent")
             /\ last_event' = state
             /\ ret' = s.ret
  /\ UNCHANGED start_ok

DrawWith(inputs, max_frames) ==
  /\ obj = "alive"
  /\ start_ok
  /\ debug_time_mode => Len(all_durations) < max_frames
  /\ \E in \in inputs :
       /\ in.fail_view <= IF m_oxr.views = 0 THEN 1 ELSE m_oxr.views
       /\ \A h \in DOMAIN m_oxr.swapchain_images :
            in.swapchain_idx <= Len(m_oxr.swapchain_images[h])
       /\ Commit(draw(Cur, in), "draw")
  /\ UNCHANGED <<last_event, ret, start_ok>>

\* Spec leaves the failures after which an image stays acquired to
\* SpecFrames, which follows the images the runtime still counts as acquired.
Draw ==
  DrawWith({in \in DrawInputs(NominalDuration) : in.fail \notin DrawFailHolding},
           MaxFrames)

Destroy ==
  /\ obj = "alive"
  /\ Commit([destructor(Cur) EXCEPT !.obj = "destroyed"], "destructor")
  /\ UNCHANGED <<last_event, ret, start_ok>>

Next == Start \/ RequestEnd \/ HandleStateChangeEvent \/ Draw \/ Destroy

Spec == Init /\ [][Next]_vars

(***************************************************************************)
(* The frame timing alone: a started Session with debug timing on, whose   *)
(* every runtime call succeeds, drawing frame after frame.                 *)
(***************************************************************************)
InitTiming ==
  /\ Init
  /\ debug_time_mode
  /\ custom_funcs = [gpu_ctx_bind_fn |-> TRUE, gpu_ctx_unbind_fn |-> TRUE]

StartInputsTiming == {in \in StartInputs : in.fail = "none" /\ Len(in.view_configs) = 1}

DrawInputsTiming == {in \in DrawInputs(Durations) : in.fail = "none"}

StartTiming == StartWith(StartInputsTiming)

DrawTiming == DrawWith(DrawInputsTiming, MaxTimedFrames)

NextTiming == StartTiming \/ DrawTiming

SpecTiming == InitTiming /\ [][NextTiming]_vars

(***************************************************************************)
(* The specification for the claims on the images of a frame: a Session    *)
(* whose start() succeeds, drawn any number of times, with every failure   *)
(* of a runtime call in draw().                                            *)
(***************************************************************************)
InitFrames ==
  /\ Init
  /\ ~debug_time_mode
  /\ custom_funcs = [gpu_ctx_bind_fn |-> TRUE, gpu_ctx_unbind_fn |-> TRUE]

StartInputsFrames ==
  {in \in StartInputs :
     in.fail = "none" /\ in.rt_formats = Formats /\ in.gb_formats = Formats}

StartFrames == StartWith(StartInputsFrames)

DrawFrames == DrawWith(DrawInputs(NominalDuration), MaxFrames)

NextFrames == StartFrames \/ DrawFrames

SpecFrames == InitFrames /\ [][NextFrames]_vars

TypeOK ==
  /\ obj \in {"alive", "destroyed", "crashed"}
  /\ m_oxr.session_state \in SessionStates
  /\ ret \in {"none", "SESSION_KEEP_ALIVE", "SESSION_DESTROY", "throw"}

(***************************************************************************)
(* Properties.                                                             *)
(***************************************************************************)
RunningStates == {"READY", "SYNCHRONIZED", "VISIBLE", "FOCUSED"}

\* The runtime holds a session for this Session object.
SessionExists == m_oxr.session \in rt.live

\* The step is a handleStateChangeEvent call carrying `state`.
EventStep(state) == last_op' = "handleStateChangeEvent" /\ last_event' = state

DestroyOps == {"xrDestroySwapchain", "xrDestroySpace", "xrDestroySession"}

Ops(cs) == [i \in 1..Len(cs) |-> cs[i].op]

\* C1 as stated: once an event was delivered, isRunning() is true iff the
\* state of the most recent event is READY, SYNCHRONIZED, VISIBLE or FOCUSED.
C1_Original ==
  (obj = "alive" /\ last_event # "none")
    => (isRunning(m_oxr) <=> last_event \in RunningStates)

\* C1 (amended): once an event was delivered, isRunning() is true iff the
\* Session holds a session handle and the state of the most recent event is
\* READY, SYNCHRONIZED, VISIBLE or FOCUSED; without a handle it is false.
C1_Amended ==
  (obj = "alive" /\ last_event # "none")
    => (isRunning(m_oxr) <=>
          (m_oxr.session # XR_NULL_HANDLE /\ last_event \in RunningStates))

C1_Witness ==
  /\ obj = "alive" /\ start_ok
  /\ last_event = "FOCUSED"
  /\ isRunning(m_oxr)

\* C2: isRunning() is false whenever the runtime holds no session for the
\* Session (before start, after a start that failed before the session was
\* created, after destruction), whatever state is stored.
C2_NotRunningWithoutSession ==
  ~SessionExists => ~isRunning(m_oxr)

C2_Witness ==
  /\ ~SessionExists
  /\ m_oxr.session_state \in RunningStates
  /\ last_op = "start" /\ thrown # NoThrow

\* C3: a READY event whose xrBeginSession fails throws, and isRunning(), if
\* false before the event, is false after it.
C3_FailedBeginKeepsNotRunning ==
  [][(EventStep("READY") /\ ret' = "throw" /\ ~isRunning(m_oxr))
       => (thrown' # NoThrow /\ ~isRunning(m_oxr'))]_vars

\* C4 as stated: a STOPPING event on a started session clears the draw state,
\* returns KEEP_ALIVE and keeps the session handle; a later EXITING or
\* LOSS_PENDING event returns DESTROY.
C4_Original ==
  [][/\ (EventStep("STOPPING") /\ start_ok)
          => /\ m_draw_info' = NullDrawInfo
             /\ ret' = "SESSION_KEEP_ALIVE"
             /\ m_oxr'.session = m_oxr.session /\ m_oxr'.session # XR_NULL_HANDLE
     /\ ((EventStep("EXITING") \/ EventStep("LOSS_PENDING")) /\ start_ok)
          => ret' = "SESSION_DESTROY"]_vars

\* C4 (amended): a STOPPING event on a started session calls end(); when
\* xrEndSession succeeds the draw state is cleared and KEEP_ALIVE returned,
\* when it fails the handler throws and the draw state stays; either way the
\* session handle stays non-null and unchanged, and a later EXITING or
\* LOSS_PENDING event returns DESTROY and keeps the handle too.
C4_Amended ==
  [][/\ (EventStep("STOPPING") /\ start_ok)
          => /\ calls'[1] = [op |-> "xrEndSession", arg |-> m_oxr.session, arg2 |-> 0]
             /\ \/ /\ thrown' = NoThrow
                   /\ ret' = "SESSION_KEEP_ALIVE"
                   /\ m_draw_info' = NullDrawInfo
                \/ /\ thrown' # NoThrow
                   /\ ret' = "throw"
                   /\ m_draw_info' = m_draw_info
             /\ m_oxr'.session = m_oxr.session /\ m_oxr'.session # XR_NULL_HANDLE
     /\ ((EventStep("EXITING") \/ EventStep("LOSS_PENDING")) /\ start_ok)
          => /\ ret' = "SESSION_DESTROY"
             /\ m_oxr'.session = m_oxr.session /\ m_oxr'.session # XR_NULL_HANDLE]_vars

C4_Witness ==
  /\ obj = "alive" /\ start_ok
  /\ last_op = "handleStateChangeEvent" /\ last_event = "EXITING"
  /\ ret = "SESSION_DESTROY"
  /\ m_draw_info = NullDrawInfo
  /\ gc.unbinds = 1
  /\ SessionExists

\* C5: an event handled without an error returns DESTROY iff its state is
\* EXITING or LOSS_PENDING, and KEEP_ALIVE for every other state.
C5_LifeExpectancy ==
  (last_event # "none" /\ ret # "throw")
    => /\ ret \in {"SESSION_KEEP_ALIVE", "SESSION_DESTROY"}
       /\ ret = "SESSION_DESTROY" <=> last_event \in {"EXITING", "LOSS_PENDING"}

C5_Witness ==
  /\ last_op = "handleStateChangeEvent"
  /\ last_event = "LOSS_PENDING" /\ ret = "SESSION_DESTROY"
  /\ start_ok /\ m_draw_info # NullDrawInfo

\* The view count the runtime reported to the start() that just returned.
ReportedViewCount ==
  LET idx == {i \in 1..Len(calls) : calls[i].op = "xrEnumerateViewConfigurationViews"}
  IN calls[CHOOSE i \in idx : \A j \in idx : j <= i].arg2

\* C6: after a successful start the swapchain list, the swapchain-to-images
\* map and the views all have as many entries as the runtime reported views,
\* and every swapchain of the list is a key of the map with a non-empty
\* image list.
C6_SwapchainCounts ==
  /\ (last_op = "start" /\ thrown = NoThrow) => m_oxr.views = ReportedViewCount
  /\ (start_ok /\ obj = "alive")
       => /\ Len(m_oxr.swapchains) = m_oxr.views
          /\ Cardinality(DOMAIN m_oxr.swapchain_images) = m_oxr.views
          /\ \A i \in 1..Len(m_oxr.swapchains) :
               /\ m_oxr.swapchains[i] \in DOMAIN m_oxr.swapchain_images
               /\ Len(m_oxr.swapchain_images[m_oxr.swapchains[i]]) > 0

C6_Witness ==
  /\ last_op = "start" /\ thrown = NoThrow
  /\ m_oxr.views = 2 /\ Len(m_oxr.swapchains) = 2

\* The draw() that just ran got as far as storing its frame state.
FrameStateCaptured ==
  /\ last_op = "draw" /\ obj = "alive"
  /\ thrown \notin {"Failed to synchronize frame rates between Blender and the device.",
                    "Failed to submit frame rendering start state."}

\* C7: a draw() whose frame state says should-render = false ends the frame
\* with zero layers and locates no views, acquires, waits for or releases no
\* swapchain image, and calls neither the draw callback nor the backend.
C7_NoRenderSubmitsNothing ==
  (FrameStateCaptured /\ ~m_draw_info.frame_state.shouldRender)
    => /\ Ops(calls) = <<"xrWaitFrame", "xrBeginFrame", "xrEndFrame">>
       /\ calls[3].arg = 0

C7_Witness ==
  /\ FrameStateCaptured /\ thrown = NoThrow
  /\ ~m_draw_info.frame_state.shouldRender
  /\ Len(m_oxr.swapchains) = 2

\* The last n elements of seq.
LastN(seq, n) == SubSeq(seq, Len(seq) - n + 1, Len(seq))

Min(a, b) == IF a < b THEN a ELSE b

\* C8: with debug timing on, the window of frame durations holds the most
\* recent min(n, 8) durations in arrival order, and the reported average is
\* formed from the sum and the number of the entries in the window.
C8_RollingWindow ==
  (debug_time_mode /\ m_draw_info # NullDrawInfo)
    => LET window == m_draw_info.last_frame_times
           n == Len(all_durations)
       IN /\ Len(window) <= 8
          /\ window = LastN(all_durations, Min(n, 8))
          /\ n > 0 => /\ reported.size = Len(window)
                      /\ reported.avg_ms_tot = Sum(window)
                      /\ reported.duration_ms = all_durations[n]

C8_Witness ==
  /\ debug_time_mode /\ m_draw_info # NullDrawInfo
  /\ Len(all_durations) = 10
  /\ Len(m_draw_info.last_frame_times) = 8
  /\ all_durations[1] # all_durations[9]

\* C9: destroying a Session, whatever start() got done, makes no destroy call
\* on a null handle, and only on handles created and not yet destroyed.
C9_NoNullDestroy ==
  /\ ~rt.invalid_destroy
  /\ \A i \in 1..Len(calls) :
       calls[i].op \in DestroyOps => calls[i].arg # XR_NULL_HANDLE

C9_Witness ==
  /\ obj = "destroyed" /\ ~start_ok
  /\ m_oxr.reference_space = XR_NULL_HANDLE
  /\ "xrDestroySession" \in {calls[i].op : i \in 1..Len(calls)}
  /\ "xrDestroySwapchain" \in {calls[i].op : i \in 1..Len(calls)}

\* C10 as stated: over the life of a started Session the unbind callback is
\* invoked exactly once per successful bind.
C10_Original ==
  (obj = "destroyed" /\ start_ok /\ custom_funcs.gpu_ctx_unbind_fn)
    => gc.unbinds = gc.binds

\* C10 (amended): with an unbind callback registered, every context a bind
\* returned is handed to the unbind callback exactly once by the time the
\* Session is destroyed, and never more than once; the callback itself is
\* invoked by every successful end() and again by destruction, the further
\* invocations passing a null context.
C10_Amended ==
  custom_funcs.gpu_ctx_unbind_fn
    => /\ gc.released + (IF m_gpu_ctx # XR_NULL_HANDLE THEN 1 ELSE 0) = gc.binds
       /\ obj = "destroyed" => (gc.released = gc.binds /\ gc.unbinds >= 1)

C10_Witness ==
  /\ obj = "destroyed" /\ start_ok
  /\ gc.binds = 1 /\ gc.released = 1 /\ gc.unbinds = 2

\* Positions of the format negotiations in the call log of start(): arg is
\* the set of formats the runtime offered, arg2 the set the backend supports.
Negotiations == {i \in 1..Len(calls) : calls[i].op = "chooseSwapchainFormat"}

FormatNegotiationError ==
  "Error: No format matching OpenXR runtime supported swapchain formats found."

\* C11: when the formats offered by the runtime and those supported by the
\* backend are disjoint, format negotiation fails with the negotiation error
\* and no swapchain creation is requested or done; otherwise negotiation does
\* not fail and the swapchain is requested next with a format in both sets.
C11_FormatNegotiation ==
  last_op = "start" =>
    \A i \in Negotiations :
      LET both == calls[i].arg \cap calls[i].arg2
      IN IF both = {}
         THEN /\ thrown = FormatNegotiationError
              /\ i = Len(calls)
              /\ \A j \in 1..Len(calls) : calls[j].op # "xrCreateSwapchain"
              /\ DOMAIN rt.created = {}
         ELSE /\ thrown # FormatNegotiationError
              /\ i < Len(calls)
              /\ calls[i + 1].op = "xrCreateSwapchain"
              /\ calls[i + 1].arg2 \in both

C11_Witness ==
  /\ last_op = "start"
  /\ start_ok
  /\ DOMAIN rt.created # {}
  /\ \E i \in Negotiations :
       /\ calls[i].arg # calls[i].arg2
       /\ calls[i].arg \ calls[i].arg2 # {}
       /\ calls[i + 1].arg2 \in calls[i].arg \cap calls[i].arg2

ConfigurationError ==
  "Invalid API usage: No way to bind graphics context to the XR session."

\* C12: a start() while no bind callback is registered fails with the
\* configuration error before any other step: it made no outward call (no
\* system query, no bind or unbind callback, no session creation), created no
\* graphics binding, and the system id, the session handle, the reference
\* space, the swapchain list and the bound context are still null.
C12_NoBindCallback ==
  (last_op = "start" /\ ~custom_funcs.gpu_ctx_bind_fn) =>
    /\ thrown = ConfigurationError
    /\ calls = <<>>
    /\ m_gpu_binding = "null"
    /\ m_gpu_ctx = XR_NULL_HANDLE
    /\ m_oxr.system_id = XR_NULL_SYSTEM_ID
    /\ m_oxr.session = XR_NULL_HANDLE
    /\ m_oxr.reference_space = XR_NULL_HANDLE
    /\ m_oxr.swapchains = <<>>
    /\ rt.live = {}
    /\ gc.binds = 0

C12_Witness ==
  /\ last_op = "start"
  /\ ~custom_funcs.gpu_ctx_bind_fn
  /\ custom_funcs.gpu_ctx_unbind_fn
  /\ thrown = ConfigurationError

\* Every handle the runtime ever handed out.
RtCreated == 1..(rt.next - 1)

\* C13: once the owner has destroyed a Session whose start() did not succeed,
\* nothing is leaked: every handle the runtime created (session, swapchains,
\* reference space) has been destroyed, none by a destroy call on a handle
\* that was not live (so each exactly once), no context is bound any more and
\* a registered unbind callback was handed every context that was bound.
C13_NoLeakAfterFailedStart ==
  (obj = "destroyed" /\ ~start_ok) =>
    /\ rt.live = {}
    /\ rt.destroyed = RtCreated
    /\ ~rt.invalid_destroy
    /\ m_gpu_ctx = XR_NULL_HANDLE
    /\ custom_funcs.gpu_ctx_unbind_fn => gc.released = gc.binds

\* start() failed after the session and two swapchains were created (the
\* second one not yet in the list) and the Session was destroyed afterwards.
C13_Witness ==
  /\ obj = "destroyed"
  /\ ~start_ok
  /\ Cardinality(rt.destroyed) = 3
  /\ rt.destroyed = DOMAIN rt.created \cup {1}
  /\ Len(calls) = 3
  /\ gc.binds = 1
  /\ gc.released = 1

\* C14: requestEnd() only asks the runtime to exit the session: its one
\* outward call is xrRequestExitSession on the session handle, it does not
\* throw, and the stored session state, the session handle, the reference
\* space, the swapchains, the draw state, the bound context, the graphics
\* binding and the runtime's objects are as before, so isRunning() returns
\* the same value after the call as before it.
C14_RequestEndOnlyAsks ==
  [][last_op' = "requestEnd" =>
       /\ calls' = <<[op |-> "xrRequestExitSession", arg |-> m_oxr.session,
                      arg2 |-> 0]>>
       /\ thrown' = NoThrow
       /\ UNCHANGED <<m_oxr, m_gpu_ctx, m_gpu_binding, m_draw_info, rt, gc>>
       /\ isRunning(m_oxr') = isRunning(m_oxr)]_vars

\* A running, started Session after requestEnd().
C14_Witness ==
  /\ last_op = "requestEnd"
  /\ isRunning(m_oxr)
  /\ ~m_draw_info.null
  /\ m_gpu_ctx # XR_NULL_HANDLE
  /\ m_oxr.reference_space \in rt.live
  /\ Len(m_oxr.swapchains) = MaxViews

\* The step of start() an outward call belongs to: 1 initSystem, 2 context
\* bind, 3 binding creation and capability validation, 4 binding
\* initialisation, 5 session creation, 6 prepareDrawing, 7 reference space.
StartStep(op) ==
  CASE op = "xrGetSystem" -> 1
    [] op = "gpu_ctx_bind_fn" -> 2
    [] op = "checkVersionRequirements" -> 3
    [] op = "initFromGhostContext" -> 4
    [] op = "xrCreateSession" -> 5
    [] op = "xrCreateReferenceSpace" -> 7
    [] OTHER -> 6

\* The step of start() that throws the message.
StartStepOfError(msg) ==
  CASE msg = "Failed to get device information. Is a device plugged in?" -> 1
    [] msg = "Invalid API usage: No graphics context returned through the callback." -> 2
    [] msg = "Available graphics context version does not meet the following requirements: " -> 3
    [] msg = "Failed to create VR session." -> 5
    [] msg = "Failed to create reference space." -> 7
    [] OTHER -> 6

\* C15: start() runs its steps in the order bind-callback check, initSystem,
\* context bind, binding creation with capability validation, binding
\* initialisation, session creation, prepareDrawing, reference-space
\* creation: the steps of its outward calls never decrease and skip no step,
\* each step but prepareDrawing makes one call, a start that throws made its
\* last call in the step that threw, a start that returns reached the
\* reference space, and session creation is only requested after the bind
\* callback returned a non-null context and the capability check passed.
C15_StartOrder ==
  last_op = "start" =>
    LET n == Len(calls)
        step == [i \in 1..n |-> StartStep(calls[i].op)]
    IN /\ ~custom_funcs.gpu_ctx_bind_fn => n = 0
       /\ n > 0 => step[1] = 1
       /\ \A i \in 1..(n - 1) : step[i] <= step[i + 1] /\ step[i + 1] <= step[i] + 1
       /\ \A i, j \in 1..n : (i < j /\ step[i] = step[j]) => step[i] = 6
       /\ (thrown # NoThrow /\ n > 0) => step[n] = StartStepOfError(thrown)
       /\ thrown = NoThrow => (n > 0 /\ step[n] = 7 /\ start_ok)
       /\ \A i \in 1..n :
            step[i] = 5 =>
              /\ \E j \in 1..(i - 1) : step[j] = 2 /\ calls[j].arg # XR_NULL_HANDLE
              /\ \E j \in 1..(i - 1) : step[j] = 3 /\ calls[j].arg2 = 1
       /\ m_oxr.session # XR_NULL_HANDLE => (\E i \in 1..n : step[i] = 5)

\* A start() that went through every step, with two views.
C15_Witness ==
  /\ last_op = "start"
  /\ thrown = NoThrow
  /\ Len(m_oxr.swapchains) = 2
  /\ m_oxr.reference_space \in rt.live
  /\ {StartStep(calls[i].op) : i \in 1..Len(calls)} = 1..7

\* The handles in the Session's swapchain list.
ListedSwapchains == {m_oxr.swapchains[i] : i \in 1..Len(m_oxr.swapchains)}

\* The swapchain handles the runtime created.
RtSwapchains == DOMAIN rt.created

\* C16: a swapchain handle is in the Session's list only once its images
\* were created too, and a handle whose creation step failed later is
\* destroyed at once and never listed: while the Session exists the live
\* swapchain handles are exactly the listed ones, every listed handle has a
\* non-empty image list, every other created swapchain is destroyed, and no
\* destroy call ever hit a handle that was not live (none destroyed twice).
C16_SwapchainOwnership ==
  /\ ~rt.invalid_destroy
  /\ RtSwapchains \subseteq rt.live \cup rt.destroyed
  /\ obj = "destroyed" => RtSwapchains \subseteq rt.destroyed
  /\ obj # "destroyed" =>
       /\ RtSwapchains \cap rt.live = ListedSwapchains
       /\ ListedSwapchains \cap rt.destroyed = {}
       /\ Cardinality(ListedSwapchains) = Len(m_oxr.swapchains)
       /\ \A h \in ListedSwapchains :
            /\ h \in DOMAIN m_oxr.swapchain_images
            /\ Len(m_oxr.swapchain_images[h]) > 0

\* start() failed while enumerating the images of the second view's
\* swapchain: the first handle is listed, the second was destroyed by the
\* scope exit.
C16_Witness ==
  /\ last_op = "start"
  /\ thrown = "Failed to create swapchain images for the VR session."
  /\ Len(m_oxr.swapchains) = 1
  /\ Cardinality(RtSwapchains) = 2
  /\ RtSwapchains \ ListedSwapchains \subseteq rt.destroyed
  /\ calls[Len(calls)].op = "xrDestroySwapchain"

\* C17: an end() that succeeds on a non-null session handle (reached through
\* a STOPPING event) first calls xrEndSession on the handle, then the unbind
\* callback, when one is registered, with the context bound before the call,
\* and leaves the bound context null and the draw state discarded; the
\* session handle, the reference space, the swapchains with their images
\* and the runtime's objects are as before.
C17_EndEffects ==
  [][(EventStep("STOPPING") /\ m_oxr.session # XR_NULL_HANDLE /\ thrown' = NoThrow)
       => /\ calls' =
               <<[op |-> "xrEndSession", arg |-> m_oxr.session, arg2 |-> 0]>>
               \o (IF custom_funcs.gpu_ctx_unbind_fn
                   THEN <<[op |-> "gpu_ctx_unbind_fn", arg |-> m_gpu_ctx, arg2 |-> 0]>>
                   ELSE <<>>)
          /\ m_gpu_ctx' = XR_NULL_HANDLE
          /\ m_draw_info' = NullDrawInfo
          /\ m_oxr' = [m_oxr EXCEPT !.session_state = "STOPPING"]
          /\ rt' = rt
          /\ m_oxr'.session \in rt'.live]_vars

\* A started Session with a bound context right after a successful end().
C17_Witness ==
  /\ last_op = "handleStateChangeEvent" /\ last_event = "STOPPING"
  /\ thrown = NoThrow
  /\ start_ok
  /\ Len(calls) = 2
  /\ calls[2].op = "gpu_ctx_unbind_fn" /\ calls[2].arg = GpuCtx
  /\ m_gpu_ctx = XR_NULL_HANDLE
  /\ m_oxr.reference_space \in rt.live
  /\ ListedSwapchains # {} /\ ListedSwapchains \subseteq rt.live

\* The step of the destructor an outward call belongs to: 1 context unbind,
\* 2 swapchains, 3 reference space, 4 session.
DestructorStep(op) ==
  CASE op = "gpu_ctx_unbind_fn" -> 1
    [] op = "xrDestroySwapchain" -> 2
    [] op = "xrDestroySpace" -> 3
    [] op = "xrDestroySession" -> 4

\* C18: the destructor first attempts the context unbind (with a registered
\* unbind callback the callback is its first call, bound context or not),
\* then destroys the swapchains, then the reference space iff one was
\* created, then the session iff one was created, so that no swapchain and
\* no reference space is destroyed after the session; afterwards nothing the
\* runtime created is live, the stored state is UNKNOWN and the session
\* handle and the bound context are null.
C18_DestructionOrder ==
  obj = "destroyed" =>
    LET n == Len(calls)
        step == [i \in 1..n |-> DestructorStep(calls[i].op)]
        at(k) == {i \in 1..n : step[i] = k}
    IN /\ \A i \in 1..(n - 1) : step[i] <= step[i + 1]
       /\ at(1) = IF custom_funcs.gpu_ctx_unbind_fn THEN {1} ELSE {}
       /\ Cardinality(at(3)) = IF m_oxr.reference_space # XR_NULL_HANDLE THEN 1 ELSE 0
       /\ Cardinality(at(4)) = IF RtCreated # {} THEN 1 ELSE 0
       /\ \A i \in at(2) \cup at(3) \cup at(4) : calls[i].arg \in rt.destroyed
       /\ rt.live = {}
       /\ m_gpu_ctx = XR_NULL_HANDLE
       /\ m_oxr.swapchains = <<>>
       /\ m_oxr.session = XR_NULL_HANDLE
       /\ m_oxr.session_state = "UNKNOWN"

\* Destruction of a started Session that end() had unbound already: the
\* unbind callback is called again, with a null context, before the two
\* swapchains, the reference space and the session are destroyed.
C18_Witness ==
  /\ obj = "destroyed" /\ start_ok
  /\ Ops(calls) = <<"gpu_ctx_unbind_fn", "xrDestroySwapchain", "xrDestroySwapchain",
                    "xrDestroySpace", "xrDestroySession">>
  /\ calls[1].arg = XR_NULL_HANDLE
  /\ gc.unbinds = 2

\* Positions of the destroy calls in the call log.
DestroyCalls == {i \in 1..Len(calls) : calls[i].op \in DestroyOps}

\* The runtime hands out handles in increasing order (RtCreate), so of two
\* handles the larger one was created later.
CreatedLater(h, g) == h > g

\* C19 as stated: the session, the swapchains and the reference space a
\* start() created are torn down in reverse creation order on destruction
\* and on end(): of two destroy calls the earlier one is on the handle
\* created later, and after a successful end() nothing is left to destroy.
C19_Original ==
  /\ (obj = "destroyed" /\ start_ok) =>
       \A i, j \in DestroyCalls : i < j => CreatedLater(calls[i].arg, calls[j].arg)
  /\ (start_ok /\ last_op = "handleStateChangeEvent" /\ last_event = "STOPPING"
        /\ thrown = NoThrow) => rt.live = {}

\* C19 (amended): the session, the swapchains and the reference space a
\* start() created are torn down by destruction only, the swapchains first
\* and in their creation order, then the reference space (created after the
\* swapchains), then the session, which was created first and is destroyed
\* last; end() and every other operation on a started Session destroy
\* nothing.
C19_Amended ==
  /\ (obj = "destroyed" /\ start_ok) =>
       /\ \A i, j \in DestroyCalls :
            (i < j /\ calls[i].op = "xrDestroySwapchain"
                   /\ calls[j].op = "xrDestroySwapchain")
              => CreatedLater(calls[j].arg, calls[i].arg)
       /\ \A i, j \in DestroyCalls :
            (calls[i].op = "xrDestroySwapchain" /\ calls[j].op = "xrDestroySpace")
              => (i < j /\ CreatedLater(calls[j].arg, calls[i].arg))
       /\ \A i, j \in DestroyCalls :
            (calls[i].op # "xrDestroySession" /\ calls[j].op = "xrDestroySession")
              => (i < j /\ CreatedLater(calls[i].arg, calls[j].arg))
       /\ {calls[i].arg : i \in DestroyCalls} = RtCreated
  /\ (obj # "destroyed" /\ start_ok /\ last_op # "start") =>
       (DestroyCalls = {} /\ rt.live = RtCreated)

\* A started Session with two swapchains after a successful end() and the
\* destruction that followed.
C19_Witness ==
  /\ obj = "destroyed" /\ start_ok
  /\ gc.unbinds = 2
  /\ Cardinality(DestroyCalls) = 4
  /\ Cardinality(RtSwapchains) = 2

\* The outward calls of drawView() in the order of its statements.
ViewSteps == <<"xrAcquireSwapchainImage", "xrWaitSwapchainImage", "draw_view_fn",
               "submitToSwapchain", "xrReleaseSwapchainImage">>

\* The calls that the views of the most recent operation made.
ViewCalls == SelectSeq(calls, LAMBDA c : \E k \in 1..Len(ViewSteps) : c.op = ViewSteps[k])

\* C20 as stated: in a draw() that renders, the views are processed in index
\* order and each view runs acquire, wait, draw callback, backend submission
\* and release in this order on its own swapchain; when the frame is
\* submitted every image acquired in it has been released; and the runtime
\* never counts more than one image of a swapchain as acquired.
C20_ImagesOfAFrame ==
  /\ last_op = "draw" =>
       /\ \A k \in 1..Len(ViewCalls) :
            /\ ViewCalls[k].op = ViewSteps[((k - 1) % 5) + 1]
            /\ ViewCalls[k].op # "draw_view_fn" =>
                 ViewCalls[k].arg = m_oxr.swapchains[((k - 1) \div 5) + 1]
       /\ (Len(calls) > 0 /\ calls[Len(calls)].op = "xrEndFrame") =>
            Len(ViewCalls) = 5 * calls[Len(calls)].arg * m_oxr.views
  /\ \A h \in DOMAIN rt.held : rt.held[h] <= 1

\* C21 as stated: every draw() issues the frame-pacing wait, then the frame
\* begin, then the layer with its views only if the frame state says
\* should-render, then the frame end; a frame that was begun is ended in the
\* same draw(), also when locating the views or a step of a view fails, so
\* that the runtime never has a begun frame left when draw() is over.
C21_FramePhases ==
  (last_op = "draw" /\ obj = "alive") =>
    LET n == Len(calls)
        begun == n >= 2 /\ thrown # "Failed to submit frame rendering start state."
    IN /\ n >= 1 /\ calls[1].op = "xrWaitFrame"
       /\ n >= 2 => calls[2].op = "xrBeginFrame"
       /\ \A i \in 3..n :
            \/ calls[i].op = "xrLocateViews" /\ i = 3
            \/ (\E k \in 1..Len(ViewSteps) : calls[i].op = ViewSteps[k]) /\ i > 3
            \/ calls[i].op = "xrEndFrame" /\ i = n
       /\ (n >= 3 /\ calls[3].op = "xrLocateViews")
            <=> (begun /\ m_draw_info.frame_state.shouldRender)
       /\ begun => calls[n].op = "xrEndFrame"
       /\ rt.frame_begun => thrown = "Failed to submit rendered frame."

\* C22 as stated: once drawing is prepared all swapchains have the same
\* dimensions: for every view the width and height the Session recorded, and
\* passes as the image rectangle of the view's projection layer and to the
\* draw callback, are the width and height its swapchain was created with,
\* whatever view configurations the runtime recommended.
C22_SharedDimensions ==
  (start_ok /\ obj # "destroyed") =>
    /\ \A h \in ListedSwapchains :
         /\ rt.created[h].width = m_oxr.swapchain_image_width
         /\ rt.created[h].height = m_oxr.swapchain_image_height
    /\ last_op = "draw" =>
         \A k \in 1..Len(ViewCalls) :
           ViewCalls[k].op = "draw_view_fn" =>
             LET h == m_oxr.swapchains[((k - 1) \div 5) + 1]
             IN /\ ViewCalls[k].arg = rt.created[h].width
                /\ ViewCalls[k].arg2 = rt.created[h].height

\* C23: handleStateChangeEvent for a state other than READY and STOPPING
\* only stores the state: it makes no outward call, does not throw, and
\* leaves the session handle, the reference space, the swapchains, the draw
\* state, the bound context, the graphics binding and the runtime's objects
\* unchanged; the Session object stays as alive as it was, also when the
\* handler returns DESTROY.
C23_OtherEventsOnlyStore ==
  [][(last_op' = "handleStateChangeEvent" /\ last_event' \notin {"READY", "STOPPING"})
       => /\ calls' = <<>>
          /\ thrown' = NoThrow
          /\ m_oxr' = [m_oxr EXCEPT !.session_state = last_event']
          /\ UNCHANGED <<m_gpu_ctx, m_gpu_binding, m_draw_info, rt, gc, obj>>
          /\ ret' = IF last_event' \in {"EXITING", "LOSS_PENDING"}
                    THEN "SESSION_DESTROY" ELSE "SESSION_KEEP_ALIVE"]_vars

\* A started, running Session with its context bound was told EXITING: the
\* handler returned DESTROY and everything is still there.
C23_Witness ==
  /\ last_op = "handleStateChangeEvent" /\ last_event = "EXITING"
  /\ ret = "SESSION_DESTROY"
  /\ obj = "alive" /\ start_ok
  /\ m_gpu_ctx # XR_NULL_HANDLE
  /\ ~m_draw_info.null
  /\ rt.live = RtCreated /\ Cardinality(rt.live) >= 3

\* C24 as stated: on a started Session, after any sequence of state-change
\* events, whenever isRunning() is true the per-frame draw state exists and a
\* graphics context is bound, so that draw() may be called, also after a
\* STOPPING event that was followed by a new READY event.  States right
\* after an operation that threw are left out, so that a READY event whose
\* xrBeginSession failed (claim C3) does not count.
C24_RunningCanDraw ==
  (obj = "alive" /\ start_ok /\ thrown = NoThrow /\ isRunning(m_oxr))
    => (~m_draw_info.null /\ m_gpu_ctx # XR_NULL_HANDLE)

\* Positions of the unbind callback invocations in a call log.
Unbinds(cs) == {i \in 1..Len(cs) : cs[i].op = "gpu_ctx_unbind_fn"}

====
